---- MODULE Spec2Model ----
(***************************************************************************)
(* Space Math Adventure (Exercise one/01-MathsQuiz.py): the timed          *)
(* arithmetic-challenge engine, as a state machine over the Tk event loop. *)
(*                                                                         *)
(* Game  is the global GameSession object (its nine fields).               *)
(* tk    is what the handlers read and write in the toolkit: the raised    *)
(*       frame, the answer entry (text, state, keyboard focus), the open   *)
(*       result dialog, and the callbacks main_window.after has queued.    *)
(* log   tallies the show_feedback calls made since the current challenge  *)
(*       was put on the screen (the events the presentation layer saw).    *)
(*                                                                         *)
(* Every handler is an operator from a world [Game, tk, log] to the world  *)
(* it leaves behind, composed the way the handlers call each other; an     *)
(* action applies one handler to the current world.  Callbacks queued by   *)
(* after() fire in any order relative to user input.                       *)
(***************************************************************************)
EXTENDS Integers, Sequences, FiniteSets, TLC

VARIABLES Game, tk, log

vars == <<Game, tk, log>>

World == [Game |-> Game, tk |-> tk, log |-> log]

(***************************************************************************)
(* Bounds of the model.                                                    *)
(***************************************************************************)
\* config/settings.py sets GAME_DURATION = 25 and MAX_CHALLENGES = 10; the
\* session is explored with a shorter countdown and a shorter quota, and
\* every formula below is stated in terms of these two names.
GAME_DURATION == 2

MAX_CHALLENGES == 2

\* how many times a level may be launched in one run of the program
MaxSessions == 2

\* callbacks that may be queued at once: advance_to_next callbacks, countdown
\* callbacks no longer referenced by Game.timer_reference, open result dialogs
MaxAdvancePending == 2

MaxOrphanTicks == 1

MaxDialogs == 2

\* how far from the ends of a range a session's random draws go
DrawSpan == 0

\* the levels a player launches: those with level_id <= LevelSpan
LevelSpan == 0

\* the weight of the states the model follows (see Weight)
MaxWeight == 4

\* the score past which the model stops following further scoring
ScoreCap == 45
LiveWeight == 1

(***************************************************************************)
(* Program constants.                                                      *)
(***************************************************************************)
INITIAL_CHARGES == 3
SETTINGS_MAX_CHALLENGES == 10

TIME_BOOST == 15

FIRST_TRY_POINTS == 15

RETRY_POINTS == 7

ATTEMPT_LIMIT == 2

None == <<>>

(***************************************************************************)
(* GameLevel (enum): min_value and max_value of each level.                *)
(***************************************************************************)
GameLevel == {"BEGINNER", "EXPLORER", "MASTER"}

level_id(level) ==
    CASE level = "BEGINNER" -> 0
      [] level = "EXPLORER" -> 1
      [] level = "MASTER" -> 2

min_value(level) ==
    CASE level = "BEGINNER" -> 1
      [] level = "EXPLORER" -> 10
      [] level = "MASTER" -> 50

max_value(level) ==
    CASE level = "BEGINNER" -> 15
      [] level = "EXPLORER" -> 50
      [] level = "MASTER" -> 200

(***************************************************************************)
(* Text of the answer entry: a sequence of characters.  int() as Python    *)
(* parses it: surrounding blanks dropped, an optional sign, then digits.   *)
(***************************************************************************)
Digits == <<"0", "1", "2", "3", "4", "5", "6", "7", "8", "9">>

IsDigit(c) == \E i \in 1..10 : Digits[i] = c

DigitValue(c) == (CHOOSE i \in 1..10 : Digits[i] = c) - 1

RECURSIVE Strip(_)
Strip(t) ==
    IF t = <<>> THEN t
    ELSE IF Head(t) = " " THEN Strip(Tail(t))
    ELSE IF t[Len(t)] = " " THEN Strip(SubSeq(t, 1, Len(t) - 1))
    ELSE t

RECURSIVE DigitsValue(_)
DigitsValue(t) ==
    IF t = <<>> THEN 0
    ELSE 10 * DigitsValue(SubSeq(t, 1, Len(t) - 1)) + DigitValue(t[Len(t)])

AllDigits(t) == t # <<>> /\ \A i \in 1..Len(t) : IsDigit(t[i])

\* int(text): [ok |-> FALSE] stands for ValueError
ParseInt(text) ==
    LET s == Strip(text)
        signed == s # <<>> /\ Head(s) \in {"-", "+"}
        body == IF signed THEN Tail(s) ELSE s
    IN IF AllDigits(body)
       THEN [ok |-> TRUE,
             val |-> IF signed /\ Head(s) = "-" THEN 0 - DigitsValue(body)
                     ELSE DigitsValue(body)]
       ELSE [ok |-> FALSE, val |-> 0]

\* str(n), what a player types for the number n
RECURSIVE NatStr(_)
NatStr(n) == IF n < 10 THEN <<Digits[n + 1]>>
             ELSE Append(NatStr(n \div 10), Digits[(n % 10) + 1])

IntStr(n) == IF n < 0 THEN <<"-">> \o NatStr(0 - n) ELSE NatStr(n)

(***************************************************************************)
(* utils/helpers.py MathHelper.calculate_result                            *)
(***************************************************************************)
calculate_result(number1, number2, operation) ==
    CASE operation = "+" -> number1 + number2
      [] operation = "-" -> number1 - number2
      [] operation = "*" -> number1 * number2
      [] OTHER -> 0

(***************************************************************************)
(* show_feedback.  The label's text is not kept; what is kept, per         *)
(* challenge on the screen, is how often each message that ends a          *)
(* challenge was shown, the answer the last of them surfaced, whether      *)
(* double points was active when the challenge ended without a SUCCESS     *)
(* (ended_with_double), and whether the challenge was put on the screen    *)
(* with double points still active from such an ending (carried).  ticks   *)
(* counts the countdown callbacks that ran since begin_countdown, as long  *)
(* as nothing else touched the countdown (no time boost, no callback of    *)
(* another countdown); after that it is -1.                                *)
(***************************************************************************)
HasDouble(game) ==
    \E i \in 1..Len(game.active_powerups) : game.active_powerups[i] = "double_points"

show_feedback(w, message, value) ==
    [w EXCEPT !.log.TIMES_UP = IF message = "TIMES_UP" THEN @ + 1 ELSE @,
              !.log.SUCCESS = IF message = "SUCCESS" THEN @ + 1 ELSE @,
              !.log.ANSWER = IF message = "ANSWER" THEN @ + 1 ELSE @,
              !.log.surfaced =
                  IF message \in {"TIMES_UP", "ANSWER"} THEN <<value>> ELSE @,
              !.log.ended_with_double =
                  IF message \in {"TIMES_UP", "ANSWER"} THEN HasDouble(w.Game)
                  ELSE IF message = "SUCCESS" THEN FALSE
                  ELSE @]

(***************************************************************************)
(* Input control, screens, the after() queue                               *)
(***************************************************************************)
disable_player_input(w) == [w EXCEPT !.tk.input_state = "disabled"]

enable_player_input(w) == [w EXCEPT !.tk.input_state = "normal"]

display_screen(w, screen) == [w EXCEPT !.tk.screen = screen]

\* main_window.after(1500 | 2000, advance_to_next)
schedule_advance(w) == [w EXCEPT !.tk.advance_pending = @ + 1]

(***************************************************************************)
(* Time management.  Game.timer_reference is "None", or the id of a        *)
(* callback that is still queued ("pending"), or the id of one that has    *)
(* already run ("fired").  A queued countdown callback whose id was        *)
(* overwritten in Game.timer_reference can no longer be cancelled: it is   *)
(* counted in tk.tick_orphans.                                             *)
(***************************************************************************)
\* variant: stopping also rewinds the countdown
stop_timer_rewinding(w) ==
    IF w.Game.timer_reference # "None"
    THEN [w EXCEPT !.Game.timer_reference = "None",
                   !.Game.remaining_time = GAME_DURATION]
    ELSE w

stop_timer(w) ==
    IF w.Game.timer_reference # "None"
    THEN [w EXCEPT !.Game.timer_reference = "None"]
    ELSE w

\* variant: the difference is shown the wrong way round
expired_answer_unsigned(challenge) ==
    LET num1 == challenge[1]
        num2 == challenge[2]
        operation == challenge[3]
    IN IF operation = "+" THEN num1 + num2
       ELSE IF operation = "-" THEN num2 - num1
       ELSE num1 * num2

\* the answer time_expired computes from Game.active_challenge
expired_answer(challenge) ==
    LET num1 == challenge[1]
        num2 == challenge[2]
        operation == challenge[3]
    IN IF operation = "+" THEN num1 + num2
       ELSE IF operation = "-" THEN num1 - num2
       ELSE num1 * num2

\* variant: the expiry also empties Game.active_powerups
time_expired_discarding(w) ==
    IF w.Game.active_challenge = None
    THEN w
    ELSE schedule_advance(disable_player_input(
             show_feedback([w EXCEPT !.Game.active_powerups = <<>>],
                           "TIMES_UP", expired_answer(w.Game.active_challenge))))

\* variant: the entry is left unlocked
time_expired_unlocked(w) ==
    IF w.Game.active_challenge = None
    THEN w
    ELSE schedule_advance(
             show_feedback(w, "TIMES_UP", expired_answer(w.Game.active_challenge)))

\* variant: the expiry does not queue the advance
time_expired_stalling(w) ==
    IF w.Game.active_challenge = None
    THEN w
    ELSE disable_player_input(
             show_feedback(w, "TIMES_UP", expired_answer(w.Game.active_challenge)))

\* unpacking Game.active_challenge = None raises: the callback ends there
time_expired(w) ==
    IF w.Game.active_challenge = None
    THEN w
    ELSE schedule_advance(disable_player_input(
             show_feedback(w, "TIMES_UP", expired_answer(w.Game.active_challenge))))

\* variant: the countdown stops at zero instead of below it
update_timer_display_strict(w) ==
    IF w.Game.remaining_time > 0
    THEN [w EXCEPT !.Game.remaining_time = @ - 1,
                   !.tk.tick_orphans =
                       IF w.Game.timer_reference = "pending" THEN @ + 1 ELSE @,
                   !.Game.timer_reference = "pending"]
    ELSE time_expired(w)

\* variant: the expiring callback counts down once more
update_timer_display_running_on(w) ==
    IF w.Game.remaining_time >= 0
    THEN [w EXCEPT !.Game.remaining_time = @ - 1,
                   !.tk.tick_orphans =
                       IF w.Game.timer_reference = "pending" THEN @ + 1 ELSE @,
                   !.Game.timer_reference = "pending"]
    ELSE time_expired([w EXCEPT !.Game.remaining_time = @ - 1])

update_timer_display(w) ==
    IF w.Game.remaining_time >= 0
    THEN [w EXCEPT !.Game.remaining_time = @ - 1,
                   !.tk.tick_orphans =
                       IF w.Game.timer_reference = "pending" THEN @ + 1 ELSE @,
                   !.Game.timer_reference = "pending"]
    ELSE time_expired(w)

\* variant: the countdown goes on from where it was
begin_countdown_no_reset(w) == update_timer_display(w)

\* variant: the time is reset but no tick is scheduled
begin_countdown_unscheduled(w) ==
    [w EXCEPT !.Game.remaining_time = GAME_DURATION,
              !.log.ticks = 0]

begin_countdown(w) ==
    update_timer_display([w EXCEPT !.Game.remaining_time = GAME_DURATION,
                                   !.log.ticks = 0])

(***************************************************************************)
(* GameEngine                                                              *)
(***************************************************************************)
\* variant: the upper bound of the level is never drawn
generate_number_exclusive(level) == min_value(level)..(max_value(level) - 1)

\* random.randint(level.min_value, level.max_value): the values it can return
generate_number(level) == min_value(level)..max_value(level)

\* random.choices(['+', '-', '*'], weights=[40, 40, 20]): every weight is
\* positive, so each operation can be drawn
select_operation == {"+", "-", "*"}

\* random.randint(2, 5), the beginner's second factor
beginner_factor == 2..5

\* variant: the second factor is narrowed at every level
challenge_of_narrowing_everywhere(level, d) ==
    IF d.operation = "-" /\ d.num1 < d.num2
    THEN <<d.num2, d.num1, d.operation>>
    ELSE IF d.operation = "*"
    THEN <<d.num1, d.redraw, d.operation>>
    ELSE <<d.num1, d.num2, d.operation>>

\* variant: a subtraction keeps the order of the draws
challenge_of_unswapped(level, d) ==
    IF d.operation = "*" /\ level = "BEGINNER"
    THEN <<d.num1, d.redraw, d.operation>>
    ELSE <<d.num1, d.num2, d.operation>>

\* the challenge present_challenge stores for the draws d
challenge_of(level, d) ==
    IF d.operation = "-" /\ d.num1 < d.num2
    THEN <<d.num2, d.num1, d.operation>>
    ELSE IF d.operation = "*" /\ level = "BEGINNER"
    THEN <<d.num1, d.redraw, d.operation>>
    ELSE <<d.num1, d.num2, d.operation>>

\* variant: the attempts of the previous challenge are carried over
present_challenge_keeping_attempts(w, level, d) ==
    LET w1 == [w EXCEPT !.Game.active_challenge = challenge_of(level, d),
                        !.tk.entry_text =
                            IF w.tk.input_state = "normal" THEN <<>> ELSE @,
                        !.tk.entry_focus = TRUE,
                        !.log.TIMES_UP = 0,
                        !.log.SUCCESS = 0,
                        !.log.ANSWER = 0,
                        !.log.surfaced = <<>>,
                        !.log.carried = /\ w.log.ended_with_double
                                        /\ w.log.SUCCESS = 0
                                        /\ HasDouble(w.Game),
                        !.log.ended_with_double = FALSE]
    IN begin_countdown(w1)

present_challenge(w, level, d) ==
    LET w1 == [w EXCEPT !.Game.active_challenge = challenge_of(level, d),
                        !.tk.entry_text =
                            IF w.tk.input_state = "normal" THEN <<>> ELSE @,
                        !.tk.entry_focus = TRUE,
                        !.Game.attempts_made = 0,
                        !.log.TIMES_UP = 0,
                        !.log.SUCCESS = 0,
                        !.log.ANSWER = 0,
                        !.log.surfaced = <<>>,
                        !.log.carried = /\ w.log.ended_with_double
                                        /\ w.log.SUCCESS = 0
                                        /\ HasDouble(w.Game),
                        !.log.ended_with_double = FALSE]
    IN begin_countdown(w1)

\* the answer verify_solution compares a submission with
correct_answer(num1, num2, operation) ==
    IF operation = "+" THEN num1 + num2
    ELSE IF operation = "-" THEN num1 - num2
    ELSE num1 * num2

\* variant: the retry is paid like a first try
base_points_first_try(attempts_made) == FIRST_TRY_POINTS

\* variant: a retry costs points
base_points_penalty(attempts_made) ==
    IF attempts_made = 0 THEN FIRST_TRY_POINTS ELSE 0 - RETRY_POINTS

\* base_points = 15 if Game.attempts_made == 0 else 7
base_points_of(attempts_made) ==
    IF attempts_made = 0 THEN FIRST_TRY_POINTS ELSE RETRY_POINTS

\* [w, is_correct, base_points]
verify_solution(w, num1, num2, operation, player_answer) ==
    LET correct == correct_answer(num1, num2, operation)
        is_correct == player_answer = correct
        base_points == base_points_of(w.Game.attempts_made)
        missed == [w EXCEPT !.Game.attempts_made = @ + 1]
    IN IF is_correct
       THEN [w |-> show_feedback(w, "SUCCESS", base_points),
             is_correct |-> TRUE, base_points |-> base_points]
       ELSE IF missed.Game.attempts_made < ATTEMPT_LIMIT
       THEN [w |-> begin_countdown(
                       [show_feedback(missed, "TRY_AGAIN", 0)
                           EXCEPT !.tk.entry_text =
                               IF w.tk.input_state = "normal" THEN <<>> ELSE @]),
             is_correct |-> FALSE, base_points |-> 0]
       ELSE [w |-> show_feedback(missed, "ANSWER", correct),
             is_correct |-> FALSE, base_points |-> 0]

\* variant: a threshold is met only when it is exceeded
rating_of_strict(final_score) ==
    IF final_score > 135 THEN "COSMIC GENIUS"
    ELSE IF final_score > 120 THEN "GALACTIC SCHOLAR"
    ELSE IF final_score > 90 THEN "SPACE EXPLORER"
    ELSE IF final_score > 60 THEN "PLANET TRAVELER"
    ELSE "SPACE CADET"

\* the rank show_final_results gives a final score
rating_of(final_score) ==
    IF final_score >= 135 THEN "COSMIC GENIUS"
    ELSE IF final_score >= 120 THEN "GALACTIC SCHOLAR"
    ELSE IF final_score >= 90 THEN "SPACE EXPLORER"
    ELSE IF final_score >= 60 THEN "PLANET TRAVELER"
    ELSE "SPACE CADET"

\* the message that goes with the rank
message_of(final_score) ==
    IF final_score >= 135 THEN "Your math skills are out of this world!"
    ELSE IF final_score >= 120 THEN "Amazing mathematical journey!"
    ELSE IF final_score >= 90 THEN "Great problem-solving skills!"
    ELSE IF final_score >= 60 THEN "Good effort! Keep practicing!"
    ELSE "The stars await your improvement!"

\* variant: the maximum is computed from the session's counter
show_final_results_counting(game) ==
    [final_score |-> game.points,
     maximum_score |-> 15 * game.problems_solved,
     rating |-> rating_of(game.points),
     message |-> message_of(game.points)]

show_final_results(game) ==
    [final_score |-> game.points,
     maximum_score |-> 15 * MAX_CHALLENGES,
     rating |-> rating_of(game.points),
     message |-> message_of(game.points)]

(***************************************************************************)
(* Power-up system                                                         *)
(***************************************************************************)
\* the message activate_time_boost shows
time_boost_message(game) ==
    IF game.powerup_charges > 0 THEN "PLUS_SECONDS" ELSE "NO_BOOSTS"

\* variant: no test of the charges
activate_time_boost_unguarded(w) ==
    show_feedback([w EXCEPT !.Game.remaining_time = @ + TIME_BOOST,
                            !.Game.powerup_charges = @ - 1],
                  time_boost_message(w.Game), TIME_BOOST)

\* variant: the boost costs nothing
activate_time_boost_free(w) ==
    IF w.Game.powerup_charges > 0
    THEN show_feedback([w EXCEPT !.Game.remaining_time = @ + TIME_BOOST],
                       time_boost_message(w.Game), TIME_BOOST)
    ELSE show_feedback(w, time_boost_message(w.Game), 0)

activate_time_boost(w) ==
    IF w.Game.powerup_charges > 0
    THEN show_feedback([w EXCEPT !.Game.remaining_time = @ + TIME_BOOST,
                                 !.Game.powerup_charges = @ - 1,
                                 !.log.ticks = -1],
                       time_boost_message(w.Game), TIME_BOOST)
    ELSE show_feedback(w, time_boost_message(w.Game), 0)

\* the message activate_double_points shows
double_points_message(game) ==
    IF game.powerup_charges > 0 /\ ~HasDouble(game) THEN "NEXT_DOUBLE"
    ELSE IF game.powerup_charges <= 0 THEN "NO_BOOSTS"
    ELSE "DOUBLE_ALREADY"

\* variant: a charge is taken although double points is already active
activate_double_points_restacking(w) ==
    IF w.Game.powerup_charges > 0
    THEN show_feedback([w EXCEPT !.Game.active_powerups =
                                     IF HasDouble(w.Game) THEN @
                                     ELSE Append(@, "double_points"),
                                 !.Game.powerup_charges = @ - 1],
                       double_points_message(w.Game), 0)
    ELSE show_feedback(w, double_points_message(w.Game), 0)

\* variant: no test of the charges
activate_double_points_no_charge_check(w) ==
    IF ~HasDouble(w.Game)
    THEN show_feedback([w EXCEPT !.Game.active_powerups = Append(@, "double_points"),
                                 !.Game.powerup_charges = @ - 1],
                       double_points_message(w.Game), 0)
    ELSE show_feedback(w, double_points_message(w.Game), 0)

\* variant: an active power-up does not prevent another activation
activate_double_points_stacking(w) ==
    IF w.Game.powerup_charges > 0
    THEN show_feedback([w EXCEPT !.Game.active_powerups = Append(@, "double_points"),
                                 !.Game.powerup_charges = @ - 1],
                       double_points_message(w.Game), 0)
    ELSE show_feedback(w, double_points_message(w.Game), 0)

activate_double_points(w) ==
    IF w.Game.powerup_charges > 0 /\ ~HasDouble(w.Game)
    THEN show_feedback([w EXCEPT !.Game.active_powerups = Append(@, "double_points"),
                                 !.Game.powerup_charges = @ - 1],
                       double_points_message(w.Game), 0)
    ELSE show_feedback(w, double_points_message(w.Game), 0)

\* list.remove: the first occurrence goes
RemoveFirst(list, x) ==
    LET i == CHOOSE k \in 1..Len(list) :
                 list[k] = x /\ \A j \in 1..(k - 1) : list[j] # x
    IN SubSeq(list, 1, i - 1) \o SubSeq(list, i + 1, Len(list))

\* variant: the entry is not removed after use
apply_powerup_effects_keeping(w, points) ==
    IF \E i \in 1..Len(w.Game.active_powerups) :
           w.Game.active_powerups[i] = "double_points"
    THEN [w |-> show_feedback(w, "DOUBLE_APPLIED", points * 2),
          final_points |-> points * 2]
    ELSE [w |-> w, final_points |-> points]

\* variant: the entry is removed but the points are not doubled
apply_powerup_effects_undoubled(w, points) ==
    IF \E i \in 1..Len(w.Game.active_powerups) :
           w.Game.active_powerups[i] = "double_points"
    THEN [w |-> show_feedback(
                    [w EXCEPT !.Game.active_powerups = RemoveFirst(@, "double_points")],
                    "DOUBLE_APPLIED", points),
          final_points |-> points]
    ELSE [w |-> w, final_points |-> points]

\* [w, final_points]
apply_powerup_effects(w, points) ==
    IF \E i \in 1..Len(w.Game.active_powerups) :
           w.Game.active_powerups[i] = "double_points"
    THEN [w |-> show_feedback(
                    [w EXCEPT !.Game.active_powerups = RemoveFirst(@, "double_points")],
                    "DOUBLE_APPLIED", points * 2),
          final_points |-> points * 2]
    ELSE [w |-> w, final_points |-> points]

(***************************************************************************)
(* Game flow                                                               *)
(***************************************************************************)
show_game_results(w) ==
    LET w1 == stop_timer(w)
    IN [w1 EXCEPT !.tk.summary = show_final_results(w1.Game),
                  !.tk.dialogs = @ + 1]

advance_to_next(w, d) ==
    LET w1 == stop_timer(w)
        w2 == [w1 EXCEPT !.Game.problems_solved = @ + 1]
    IN IF w2.Game.problems_solved < MAX_CHALLENGES
       THEN present_challenge(enable_player_input(w2), w2.Game.current_level, d)
       ELSE show_game_results(w2)

\* variant: the second miss is consoled with a point
check_player_answer_consoling(w) ==
    LET w1 == stop_timer(w)
        parsed == ParseInt(w1.tk.entry_text)
    IN IF ~parsed.ok
       THEN begin_countdown(show_feedback(w1, "INVALID", 0))
       ELSE LET c == w1.Game.active_challenge
                v == verify_solution(w1, c[1], c[2], c[3], parsed.val)
            IN IF v.is_correct
               THEN LET a == apply_powerup_effects(v.w, v.base_points)
                        scored == [a.w EXCEPT !.Game.points = @ + a.final_points]
                    IN schedule_advance(disable_player_input(scored))
               ELSE IF v.w.Game.attempts_made >= 2
               THEN schedule_advance(disable_player_input(
                        [v.w EXCEPT !.Game.points = @ + 1]))
               ELSE v.w

check_player_answer(w) ==
    LET w1 == stop_timer(w)
        parsed == ParseInt(w1.tk.entry_text)
    IN IF ~parsed.ok
       THEN begin_countdown(show_feedback(w1, "INVALID", 0))
       ELSE LET c == w1.Game.active_challenge
                v == verify_solution(w1, c[1], c[2], c[3], parsed.val)
            IN IF v.is_correct
               THEN LET a == apply_powerup_effects(v.w, v.base_points)
                        scored == [a.w EXCEPT !.Game.points = @ + a.final_points]
                    IN schedule_advance(disable_player_input(scored))
               ELSE IF v.w.Game.attempts_made >= 2
               THEN schedule_advance(disable_player_input(v.w))
               ELSE v.w

\* variant: the charges of the last session are kept
initialize_new_game_keeping_charges(w, selected_level) ==
    [w EXCEPT !.Game.current_level = selected_level,
              !.Game.points = 0,
              !.Game.problems_solved = 0,
              !.Game.active_challenge = None,
              !.Game.attempts_made = 0,
              !.Game.remaining_time = GAME_DURATION,
              !.Game.active_powerups = <<>>]

initialize_new_game(w, selected_level) ==
    [w EXCEPT !.Game.current_level = selected_level,
              !.Game.points = 0,
              !.Game.problems_solved = 0,
              !.Game.active_challenge = None,
              !.Game.attempts_made = 0,
              !.Game.remaining_time = GAME_DURATION,
              !.Game.active_powerups = <<>>,
              !.Game.powerup_charges = INITIAL_CHARGES]

start_space_adventure(w, selected_level, d) ==
    LET w1 == enable_player_input(initialize_new_game(w, selected_level))
        w2 == [w1 EXCEPT !.log.launches = @ + 1]
    IN present_challenge(display_screen(w2, "game"), w2.Game.current_level, d)

(***************************************************************************)
(* The state after the module has run to main_window.mainloop()            *)
(***************************************************************************)
GameSession ==
    [current_level |-> "BEGINNER",
     points |-> 0,
     problems_solved |-> 0,
     active_challenge |-> None,
     attempts_made |-> 0,
     remaining_time |-> GAME_DURATION,
     timer_reference |-> "None",
     active_powerups |-> <<>>,
     powerup_charges |-> INITIAL_CHARGES]

\* no result dialog is open
NoSummary == [final_score |-> 0, maximum_score |-> 0, rating |-> "", message |-> ""]

MainWindow ==
    [running |-> TRUE,
     screen |-> "menu",
     dialogs |-> 0,
     entry_text |-> <<>>,
     input_state |-> "normal",
     entry_focus |-> FALSE,
     summary |-> NoSummary,
     advance_pending |-> 0,
     tick_orphans |-> 0]

Init ==
    /\ Game = GameSession
    /\ tk = MainWindow
    /\ log = [TIMES_UP |-> 0, SUCCESS |-> 0, ANSWER |-> 0, surfaced |-> <<>>,
              ended_with_double |-> FALSE, carried |-> FALSE, ticks |-> 0,
              launches |-> 0]

(***************************************************************************)
(* What the model follows.  A state is weighed by what is out of the       *)
(* ordinary in it: charges spent, levels launched after the first, queued  *)
(* callbacks beyond one advance, attempts and ending messages beyond the   *)
(* ones a challenge allows, challenges counted past the quota.  States     *)
(* heavier than MaxWeight, or over a cap, are not followed.                *)
(***************************************************************************)
Over(n, limit) == IF n > limit THEN n - limit ELSE 0

Weight(w) ==
      (INITIAL_CHARGES - w.Game.powerup_charges)
    + 2 * Over(w.log.launches, 1)
    + Over(w.tk.advance_pending, 1)
    + w.tk.tick_orphans
    + Over(w.Game.attempts_made, ATTEMPT_LIMIT)
    + Over(w.log.TIMES_UP + w.log.SUCCESS + w.log.ANSWER, 1)
    + Over(w.Game.problems_solved, MAX_CHALLENGES)

Bounded(w) ==
    /\ Weight(w) <= MaxWeight
    /\ w.tk.advance_pending <= MaxAdvancePending
    /\ w.tk.tick_orphans <= MaxOrphanTicks
    /\ w.tk.dialogs <= MaxDialogs
    /\ w.log.launches <= MaxSessions
    /\ w.Game.points <= ScoreCap

Becomes(w) ==
    /\ Bounded(w)
    /\ Game' = w.Game
    /\ tk' = w.tk
    /\ log' = w.log

\* the draws a session's random source makes for one challenge: the DrawSpan+1
\* smallest values of the range for num1, the DrawSpan+1 largest for num2 and
\* for the beginner's factor, any operation
SessionDraws(level) ==
    [num1 : {x \in generate_number(level) : x <= min_value(level) + DrawSpan},
     num2 : {x \in generate_number(level) : x >= max_value(level) - DrawSpan},
     operation : select_operation,
     redraw : {x \in beginner_factor : x >= 5 - DrawSpan}]

\* What a player types into the entry while a challenge is up.  Nothing
\* reads the entry until a submission or until the entry is locked, so the
\* text is settled at those moments: Typed(w) are the worlds w may be by
\* then, the entry holding its old text or, if it is unlocked and has the
\* focus, one of TypedTexts.
TypedTexts(game) ==
    LET c == game.active_challenge
        n == correct_answer(c[1], c[2], c[3])
    IN {IntStr(n), IntStr(n + 1), <<"a", "b", "c">>}

Typed(w) ==
    {w} \cup
    IF /\ w.tk.input_state = "normal" /\ w.tk.entry_focus /\ w.tk.screen = "game"
       /\ w.tk.dialogs = 0 /\ w.Game.active_challenge # None
    THEN {[w EXCEPT !.tk.entry_text = t] : t \in TypedTexts(w.Game)}
    ELSE {}

(***************************************************************************)
(* User input.  A click reaches a widget of the raised frame while no      *)
(* dialog holds the grab; a key goes to the widget with the keyboard       *)
(* focus, which the answer entry keeps once present_challenge gave it,     *)
(* whatever the entry's state.  Keys are followed while the game frame is  *)
(* the raised one.                                                         *)
(***************************************************************************)
Raised(screen) == tk.running /\ tk.dialogs = 0 /\ tk.screen = screen

KeysToEntry == Raised("game") /\ tk.entry_focus

\* launch_button
ClickLaunch ==
    /\ Raised("menu")
    /\ Becomes(display_screen(World, "level"))

\* main_window.quit(): mainloop returns, the script ends and the process
\* with it; nothing of the session is left
quit(w) ==
    [Game |-> GameSession,
     tk |-> [MainWindow EXCEPT !.running = FALSE],
     log |-> [w.log EXCEPT !.TIMES_UP = 0, !.SUCCESS = 0, !.ANSWER = 0,
                           !.surfaced = <<>>, !.ended_with_double = FALSE,
                           !.carried = FALSE, !.ticks = 0]]

\* exit_button
ClickExit ==
    /\ Raised("menu")
    /\ Becomes(quit(World))

\* return_button of the level selection (followed until a level is launched)
ClickReturn ==
    /\ Raised("level")
    /\ log.launches = 0
    /\ Becomes(display_screen(World, "menu"))

\* level_btn: start_space_adventure(gl)
ClickLevel ==
    /\ Raised("level")
    /\ \E level \in {l \in GameLevel : level_id(l) <= LevelSpan} :
       \E d \in SessionDraws(level) :
           Becomes(start_space_adventure(World, level, d))

\* game_back_control: (stop_timer(), display_screen(level_select_frame))
ClickBack ==
    /\ Raised("game")
    /\ Becomes(display_screen(stop_timer(World), "level"))

\* submit_action (SOLVE): command=check_player_answer
ClickSolve ==
    /\ Raised("game")
    /\ tk.input_state = "normal"
    /\ \E w \in Typed(World) : Becomes(check_player_answer(w))

\* answer_input.bind('<Return>', ...)
PressReturn ==
    /\ KeysToEntry
    /\ \E w \in Typed(World) : Becomes(check_player_answer(w))

\* time_boost_btn
ClickTimeBoost ==
    /\ Raised("game")
    /\ Becomes(activate_time_boost(World))

\* double_points_btn
ClickDoublePoints ==
    /\ Raised("game")
    /\ Becomes(activate_double_points(World))

\* show_game_results, after messagebox.askyesno returns: yes raises the
\* menu, no quits
close_dialog(w) ==
    [w EXCEPT !.tk.dialogs = @ - 1,
              !.tk.summary = IF w.tk.dialogs = 1 THEN NoSummary ELSE @]

AnswerDialog ==
    /\ tk.running
    /\ tk.dialogs > 0
    /\ \/ Becomes(display_screen(close_dialog(World), "menu"))
       \/ Becomes(quit(World))

(***************************************************************************)
(* Callbacks queued with main_window.after                                 *)
(***************************************************************************)
\* the worlds a countdown callback may find: the entry's text matters to it
\* only when it locks the entry
AtTick(w) == IF w.Game.remaining_time >= 0 THEN {w} ELSE Typed(w)

\* the countdown callback Game.timer_reference names
Tick ==
    /\ tk.running
    /\ Game.timer_reference = "pending"
    /\ \E w \in AtTick(World) :
           Becomes(update_timer_display(
                       [w EXCEPT !.Game.timer_reference = "fired",
                                 !.log.ticks = IF @ >= 0 THEN @ + 1 ELSE @]))

\* a countdown callback nothing references any more
OrphanTick ==
    /\ tk.running
    /\ tk.tick_orphans > 0
    /\ \E w \in AtTick(World) :
           Becomes(update_timer_display([w EXCEPT !.tk.tick_orphans = @ - 1,
                                                  !.log.ticks = -1]))

\* a queued advance_to_next
Advance ==
    /\ tk.running
    /\ tk.advance_pending > 0
    /\ \E d \in SessionDraws(Game.current_level) :
           Becomes(advance_to_next([World EXCEPT !.tk.advance_pending = @ - 1], d))

Next ==
    \/ ClickLaunch
    \/ ClickExit
    \/ ClickReturn
    \/ ClickLevel
    \/ ClickBack
    \/ ClickSolve
    \/ PressReturn
    \/ ClickTimeBoost
    \/ ClickDoublePoints
    \/ AnswerDialog
    \/ Tick
    \/ OrphanTick
    \/ Advance

Spec == Init /\ [][Next]_vars

(***************************************************************************)
(* Vocabulary of the properties                                            *)
(***************************************************************************)
\* the challenge on the screen was resolved by a submission / by the countdown
Submitted == log.SUCCESS + log.ANSWER > 0

Expired == log.TIMES_UP > 0

\* this step resolves the challenge by a verified correct answer
Scored == log'.SUCCESS = log.SUCCESS + 1

\* this step ends the challenge without a correct answer
EndsUnanswered ==
    \/ log'.TIMES_UP = log.TIMES_UP + 1
    \/ log'.ANSWER = log.ANSWER + 1

\* this step starts a session; this step puts the next challenge of the
\* session on the screen or ends the session
Started == log'.launches = log.launches + 1

Advanced == Game'.problems_solved = Game.problems_solved + 1

\* this step is a verified incorrect submission
Missed == Game'.attempts_made = Game.attempts_made + 1

Award == Game'.points - Game.points

Expected ==
    calculate_result(Game.active_challenge[1], Game.active_challenge[2],
                     Game.active_challenge[3])

\* a submission can be made: <Return> in the entry or a click on SOLVE
CanSubmit == KeysToEntry \/ (Raised("game") /\ tk.input_state = "normal")

\* this step is the submission of a text int() rejects
InvalidSubmission ==
    /\ CanSubmit
    /\ \E w \in Typed(World) :
           /\ ~ParseInt(w.tk.entry_text).ok
           /\ Becomes(check_player_answer(w))

(***************************************************************************)
(* C1.  Every challenge gets exactly one terminal signal from its          *)
(* countdown by the time it resolves: a submission resolved it (SUCCESS    *)
(* or the ANSWER message) or time_expired fired, never both, and never     *)
(* neither when advance_to_next moves past it.                             *)
(***************************************************************************)
C1_ExactlyOneTerminalSignal ==
    [][ /\ ~(Submitted' /\ Expired')
        /\ Advanced => (Submitted \/ Expired) ]_vars

(***************************************************************************)
(* C2.  The second incorrect integer submission on a challenge resolves it *)
(* as failed: the expected answer is surfaced, the entry is locked and an  *)
(* advance is scheduled; and once a challenge has two incorrect            *)
(* submissions no further submission for it is verified.                   *)
(***************************************************************************)
C2_TwoIncorrectThenNoMore ==
    [][ /\ (Game.attempts_made = 1 /\ Missed) =>
              /\ log'.ANSWER = log.ANSWER + 1
              /\ log'.surfaced = <<Expected>>
              /\ tk'.input_state = "disabled"
              /\ tk'.advance_pending = tk.advance_pending + 1
        /\ Game.attempts_made >= 2 => ~(Missed \/ Scored) ]_vars

C4_InvalidInputOnlyRestartsCountdown ==
    [][ InvalidSubmission =>
            /\ Game'.attempts_made = Game.attempts_made
            /\ Game'.points = Game.points
            /\ Game'.problems_solved = Game.problems_solved
            /\ Game'.powerup_charges = Game.powerup_charges
            /\ Game'.active_powerups = Game.active_powerups
            /\ Game'.active_challenge = Game.active_challenge
            /\ Game'.current_level = Game.current_level
            /\ Game'.remaining_time = GAME_DURATION - 1
            /\ Game'.timer_reference = "pending"
            /\ tk'.tick_orphans = tk.tick_orphans
            /\ tk'.advance_pending = tk.advance_pending
            /\ tk'.input_state = tk.input_state
            /\ tk'.screen = tk.screen
            /\ log'.TIMES_UP = log.TIMES_UP
            /\ log'.SUCCESS = log.SUCCESS
            /\ log'.ANSWER = log.ANSWER
            /\ log'.surfaced = log.surfaced
            /\ log'.ticks = 0 ]_vars

\* "abc" was submitted on the retry of a challenge, after one time boost
C4_Witness ==
    /\ tk.entry_text = <<"a", "b", "c">>
    /\ tk.input_state = "normal"
    /\ Game.powerup_charges = 2
    /\ Game.attempts_made = 1
    /\ Game.remaining_time = GAME_DURATION - 1
    /\ Game.timer_reference = "pending"

(***************************************************************************)
(* C5.  With double points active, a scored correct answer is paid twice   *)
(* its base points and double points is removed by it, so that the next    *)
(* scored answer is paid its base points only; a first incorrect attempt   *)
(* (Retry) and an invalid input leave double points active.                *)
(***************************************************************************)
C5_DoublePointsSingleUse ==
    [][ LET base == IF Game.attempts_made = 0 THEN 15 ELSE 7
        IN /\ (Scored /\ HasDouble(Game)) =>
                  (Award = 2 * base /\ ~HasDouble(Game'))
           /\ (Scored /\ ~HasDouble(Game)) => Award = base
           /\ (HasDouble(Game) /\ Game.attempts_made = 0 /\ Missed) =>
                  (HasDouble(Game') /\ Award = 0)
           /\ (HasDouble(Game) /\ InvalidSubmission) =>
                  (HasDouble(Game') /\ Award = 0) ]_vars

\* double points, then a wrong answer, then the right one: 2 * 7
C5_Witness ==
    /\ Game.points = 14
    /\ Game.attempts_made = 1
    /\ log.SUCCESS = 1
    /\ ~HasDouble(Game)

(***************************************************************************)
(* C6, as the specification states it.  A challenge that ends without a    *)
(* correct answer (second incorrect attempt, expiry) discards double       *)
(* points: no challenge is presented with double points left active by     *)
(* such an ending.                                                         *)
(***************************************************************************)
C6_DiscardedAtChallengeEnd ==
    [][ /\ EndsUnanswered => ~HasDouble(Game')
        /\ ~log'.carried ]_vars

(***************************************************************************)
(* C6, amended.  A challenge that ends without a correct answer leaves     *)
(* double points as it was; double points is removed only by a scored      *)
(* correct answer or by starting a session (or quitting), so the next      *)
(* challenge is presented with it still active and the first correct       *)
(* answer scored there is paid twice its base points.                      *)
(***************************************************************************)
C6_KeptUntilScored ==
    [][ LET base == IF Game.attempts_made = 0 THEN 15 ELSE 7
        IN /\ EndsUnanswered => (HasDouble(Game') <=> HasDouble(Game))
           /\ (HasDouble(Game) /\ ~HasDouble(Game') /\ tk'.running) =>
                  (Scored \/ Started)
           /\ (log.carried /\ log.SUCCESS = 0) => HasDouble(Game)
           /\ (log.carried /\ log.SUCCESS = 0 /\ Scored) => Award = 2 * base ]_vars

\* double points outlived an unanswered challenge and doubled the first try
\* of the next one
C6_Witness ==
    /\ log.carried
    /\ log.SUCCESS = 1
    /\ Game.problems_solved = 1
    /\ Game.points = 30

(***************************************************************************)
(* C7.  In every reachable state 0 <= powerup_charges <= 3.                *)
(***************************************************************************)
C7_ChargesInRange ==
    /\ Game.powerup_charges >= 0
    /\ Game.powerup_charges <= 3

\* all three charges spent, on both kinds of power-up
C7_Witness ==
    /\ Game.powerup_charges = 0
    /\ HasDouble(Game)
    /\ Game.remaining_time > GAME_DURATION + 15

(***************************************************************************)
(* C8.  A denied activation (time boost or double points without charges,  *)
(* double points while already active) changes nothing of the session:     *)
(* every Game field stays as it was, and so does the toolkit state.        *)
(***************************************************************************)
C8_DeniedActivationChangesNothing ==
    /\ Game.powerup_charges = 0 =>
           /\ activate_time_boost(World).Game = Game
           /\ activate_time_boost(World).tk = tk
    /\ (Game.powerup_charges = 0 \/ HasDouble(Game)) =>
           /\ activate_double_points(World).Game = Game
           /\ activate_double_points(World).tk = tk

\* double points is active and charges are left: the button is denied
C8_Witness ==
    /\ tk.screen = "game"
    /\ HasDouble(Game)
    /\ Game.powerup_charges = 1
    /\ Game.attempts_made = 1

(***************************************************************************)
(* C9.  With charges left activate_time_boost adds exactly 15 to           *)
(* remaining_time and takes exactly one charge, changing nothing else;     *)
(* three activations from 3 charges leave 0 charges, and a fourth is       *)
(* denied with charges still 0.                                            *)
(***************************************************************************)
C9_TimeBoost ==
    LET once == activate_time_boost(World)
        thrice == activate_time_boost(activate_time_boost(once))
    IN /\ Game.powerup_charges > 0 =>
              /\ once.Game = [Game EXCEPT !.remaining_time = @ + 15,
                                          !.powerup_charges = @ - 1]
              /\ once.tk = tk
       /\ Game.powerup_charges = 3 =>
              /\ thrice.Game.powerup_charges = 0
              /\ thrice.Game.remaining_time = Game.remaining_time + 45
              /\ activate_time_boost(thrice).Game = thrice.Game

\* three boosts on one countdown
C9_Witness ==
    /\ Game.powerup_charges = 0
    /\ ~HasDouble(Game)
    /\ Game.remaining_time >= GAME_DURATION - 1 + 30

(***************************************************************************)
(* C10, as the specification states it.  activate_double_points activates  *)
(* and takes a charge iff charges > 0 and double points is not active;     *)
(* whenever double points is active, with any number of charges, the       *)
(* message is "already active"; otherwise, without charges, it is "no      *)
(* charges remaining".                                                     *)
(***************************************************************************)
C10_AlreadyActiveFirst ==
    LET after == activate_double_points(World)
        activates == /\ HasDouble(after.Game)
                     /\ after.Game.powerup_charges = Game.powerup_charges - 1
    IN /\ activates <=> (Game.powerup_charges > 0 /\ ~HasDouble(Game))
       /\ HasDouble(Game) => double_points_message(Game) = "DOUBLE_ALREADY"
       /\ (~HasDouble(Game) /\ Game.powerup_charges = 0) =>
              double_points_message(Game) = "NO_BOOSTS"

(***************************************************************************)
(* C10, amended.  activate_double_points activates and takes a charge iff  *)
(* charges > 0 and double points is not active; without charges the        *)
(* message is "no charges remaining", whether or not double points is      *)
(* active; the message is "already active" only when double points is      *)
(* active and charges are left; neither denial takes a charge.             *)
(***************************************************************************)
C10_NoChargesFirst ==
    LET after == activate_double_points(World)
        activates == /\ HasDouble(after.Game)
                     /\ after.Game.powerup_charges = Game.powerup_charges - 1
    IN /\ activates <=> (Game.powerup_charges > 0 /\ ~HasDouble(Game))
       /\ activates <=> double_points_message(Game) = "NEXT_DOUBLE"
       /\ Game.powerup_charges = 0 => double_points_message(Game) = "NO_BOOSTS"
       /\ (HasDouble(Game) /\ Game.powerup_charges > 0) =>
              double_points_message(Game) = "DOUBLE_ALREADY"
       /\ ~activates => after.Game = Game

\* double points is active and the last charge went to a time boost
C10_Witness ==
    /\ HasDouble(Game)
    /\ Game.powerup_charges = 0
    /\ Game.attempts_made = 0
    /\ Game.remaining_time >= GAME_DURATION - 1 + 30

(***************************************************************************)
(* C11.  apply_powerup_effects(points) returns points * 2 and removes      *)
(* double points when double points is active, and returns points          *)
(* unchanged, leaving the power-up state as it was, otherwise; a           *)
(* first-try correct answer with double points active is paid 30 and       *)
(* leaves double points inactive.                                          *)
(***************************************************************************)
C11_ApplyPowerupEffects ==
    /\ \A points \in {0, 7, 15} :
           LET a == apply_powerup_effects(World, points)
           IN IF HasDouble(Game)
              THEN /\ a.final_points = points * 2
                   /\ ~HasDouble(a.w.Game)
                   /\ a.w.Game.powerup_charges = Game.powerup_charges
                   /\ a.w.Game.points = Game.points
              ELSE /\ a.final_points = points
                   /\ a.w.Game = Game
    /\ (Game.active_challenge # None /\ HasDouble(Game) /\ Game.attempts_made = 0) =>
           LET w == check_player_answer(
                        [World EXCEPT !.tk.entry_text = IntStr(Expected)])
           IN /\ w.Game.points = Game.points + 30
              /\ ~HasDouble(w.Game)

\* the first challenge of a session, answered at once with double points on
C11_Witness ==
    /\ Game.points = 30
    /\ Game.problems_solved = 0
    /\ Game.attempts_made = 0
    /\ log.SUCCESS = 1
    /\ Game.powerup_charges = 2
    /\ ~HasDouble(Game)

(***************************************************************************)
(* C12.  Starting a session, from whatever state the last one was left in  *)
(* (finished, or abandoned with callbacks still queued), sets points,      *)
(* attempts_made and problems_solved to 0, powerup_charges to 3 and        *)
(* active_powerups to empty, and at once puts the first challenge on the   *)
(* game screen with the entry unlocked and a countdown running from        *)
(* GAME_DURATION.                                                          *)
(***************************************************************************)
C12_SessionStartResets ==
    [][ Started =>
            /\ Game'.points = 0
            /\ Game'.attempts_made = 0
            /\ Game'.problems_solved = 0
            /\ Game'.powerup_charges = 3
            /\ Game'.active_powerups = <<>>
            /\ Game'.active_challenge # None
            /\ Game'.remaining_time = GAME_DURATION - 1
            /\ Game'.timer_reference = "pending"
            /\ tk'.screen = "game"
            /\ tk'.input_state = "normal"
            /\ tk'.entry_text = <<>>
            /\ log'.TIMES_UP + log'.SUCCESS + log'.ANSWER = 0 ]_vars

\* a second session just started while the advance of the first, which was
\* left with Back, is still queued
C12_Witness ==
    /\ log.launches = 2
    /\ tk.advance_pending = 1
    /\ tk.screen = "game"
    /\ Game.points = 0
    /\ Game.problems_solved = 0
    /\ Game.powerup_charges = 3
    /\ Game.active_challenge # None
    /\ log.ticks = 0

\* the fields the specification calls the session state
SessionState(game) ==
    <<game.current_level, game.points, game.problems_solved,
      game.active_challenge, game.attempts_made, game.remaining_time,
      game.active_powerups, game.powerup_charges>>

\* an unfinished session was left with the game screen's Back and no level
\* has been selected since
Abandoned ==
    /\ tk.running
    /\ tk.screen = "level"
    /\ log.launches > 0
    /\ Game.problems_solved < MAX_CHALLENGES

(***************************************************************************)
(* C13.  Once the player has left a running session with Back, and until   *)
(* a level is selected again, no tick, expiry or advance is processed and  *)
(* no field of the session state changes, also when an advance was         *)
(* already scheduled at the time of the Back.                              *)
(***************************************************************************)
C13_BackTearsDown ==
    [][ (Abandoned /\ ~Started) =>
            /\ SessionState(Game') = SessionState(Game)
            /\ tk'.advance_pending = tk.advance_pending
            /\ tk'.tick_orphans = tk.tick_orphans
            /\ log'.TIMES_UP = log.TIMES_UP ]_vars

\* the countdown callbacks queued with after() and not cancelled
PendingTicks ==
    tk.tick_orphans + (IF Game.timer_reference = "pending" THEN 1 ELSE 0)

(***************************************************************************)
(* C14.  Beginning a countdown replaces the countdown that was running:    *)
(* in every reachable state at most one countdown callback is queued,      *)
(* also when a session is started while callbacks of an earlier session    *)
(* are still queued.                                                       *)
(***************************************************************************)
C14_AtMostOneCountdown == PendingTicks <= 1

\* this step is a callback of a countdown nothing else has touched since it
\* was begun
CountdownTick == log.ticks >= 0 /\ log'.ticks = log.ticks + 1

(***************************************************************************)
(* C15.  A countdown begun at GAME_DURATION and left alone (no submission, *)
(* no time boost, no other countdown) decrements remaining_time by one at  *)
(* each of its first GAME_DURATION ticks and keeps one tick queued; its    *)
(* tick number GAME_DURATION + 1 (the 26th for 25 seconds), finding        *)
(* remaining_time below zero, fires the expiry, which surfaces the         *)
(* expected answer and queues no further tick; there is no later tick, so  *)
(* the expiry fires once.                                                  *)
(***************************************************************************)
C15_ExpiryOnTickAfterDuration ==
    [][ /\ (CountdownTick /\ log.ticks < GAME_DURATION) =>
               /\ Game.remaining_time = GAME_DURATION - 1 - log.ticks
               /\ Game'.remaining_time = Game.remaining_time - 1
               /\ Game'.timer_reference = "pending"
               /\ tk'.tick_orphans = tk.tick_orphans
               /\ log'.TIMES_UP = log.TIMES_UP
        /\ (CountdownTick /\ log.ticks >= GAME_DURATION) =>
               /\ log.ticks = GAME_DURATION
               /\ Game.remaining_time = -1
               /\ Game'.remaining_time = -1
               /\ log'.TIMES_UP = log.TIMES_UP + 1
               /\ log'.surfaced = <<Expected>>
               /\ Game'.timer_reference = "fired"
               /\ tk'.tick_orphans = tk.tick_orphans
        /\ (log'.ticks >= 0 /\ log'.TIMES_UP = log.TIMES_UP + 1) =>
               log'.ticks = GAME_DURATION + 1 ]_vars

\* a first-try countdown that ran out untouched
C15_Witness ==
    /\ log.ticks = GAME_DURATION + 1
    /\ log.TIMES_UP = 1
    /\ Game.remaining_time = -1
    /\ Game.timer_reference = "fired"
    /\ Game.powerup_charges = 3
    /\ Game.attempts_made = 0
    /\ tk.tick_orphans = 0

(***************************************************************************)
(* C16.  stop_timer never fires the expiry and is idempotent: it changes   *)
(* no field of the session state, shows nothing and queues nothing,        *)
(* whether a countdown is pending or not (never started, cancelled,        *)
(* expired); where Game.timer_reference is None it changes nothing at      *)
(* all; and calling it twice leaves what calling it once leaves.           *)
(***************************************************************************)
C16_StopTimerIdempotent ==
    LET once == stop_timer(World)
        twice == stop_timer(once)
    IN /\ twice = once
       /\ SessionState(once.Game) = SessionState(Game)
       /\ once.tk = tk
       /\ once.log = log
       /\ once.Game.timer_reference = "None"
       /\ Game.timer_reference = "None" => once = World

\* Back was clicked after the countdown had expired
C16_Witness ==
    /\ tk.screen = "level"
    /\ log.launches = 1
    /\ log.TIMES_UP = 1
    /\ Game.remaining_time = -1
    /\ Game.timer_reference = "None"
    /\ tk.advance_pending = 1

(***************************************************************************)
(* C17.  check_player_answer stops the countdown before it parses or       *)
(* verifies, so that once a submission has resolved the challenge          *)
(* (SUCCESS, or ANSWER after the second miss) no tick decrements           *)
(* remaining_time and no expiry fires until the next challenge is          *)
(* presented.                                                              *)
(***************************************************************************)
C17_NoTickAfterResolvingSubmission ==
    [][ (Submitted /\ tk'.running /\ ~Advanced /\ ~Started) =>
            /\ Game'.remaining_time >= Game.remaining_time
            /\ log'.TIMES_UP = log.TIMES_UP ]_vars

(***************************************************************************)
(* C18.  The expiry of the countdown verifies nothing: points,             *)
(* attempts_made, powerup_charges, active_powerups, problems_solved and    *)
(* the challenge are as before, no SUCCESS or ANSWER message is shown;     *)
(* the expected answer is surfaced, the entry is locked and one advance    *)
(* is scheduled.                                                           *)
(***************************************************************************)
C18_ExpiryFrame ==
    [][ log'.TIMES_UP = log.TIMES_UP + 1 =>
            /\ Game'.points = Game.points
            /\ Game'.attempts_made = Game.attempts_made
            /\ Game'.powerup_charges = Game.powerup_charges
            /\ Game'.active_powerups = Game.active_powerups
            /\ Game'.problems_solved = Game.problems_solved
            /\ Game'.active_challenge = Game.active_challenge
            /\ Game'.remaining_time = Game.remaining_time
            /\ log'.SUCCESS = log.SUCCESS
            /\ log'.ANSWER = log.ANSWER
            /\ log'.surfaced = <<Expected>>
            /\ tk'.input_state = "disabled"
            /\ tk'.advance_pending = tk.advance_pending + 1 ]_vars

\* the countdown of a retry ran out with double points active
C18_Witness ==
    /\ log.TIMES_UP = 1
    /\ log.SUCCESS + log.ANSWER = 0
    /\ Game.attempts_made = 1
    /\ HasDouble(Game)
    /\ Game.powerup_charges = 2
    /\ Game.points = 0
    /\ tk.input_state = "disabled"
    /\ tk.advance_pending = 1

(***************************************************************************)
(* C19.  problems_solved is incremented once for each presented challenge  *)
(* and only after that challenge has resolved (correct, failed, expired):  *)
(* the increment finds a resolved challenge, no second advance queued for  *)
(* it, and a session that has not yet reached its quota; so no challenge   *)
(* is replaced while it is unresolved.                                     *)
(***************************************************************************)
C19_CountedOncePerResolvedChallenge ==
    [][ Advanced =>
            /\ Submitted \/ Expired
            /\ tk.advance_pending = 1
            /\ Game.problems_solved < MAX_CHALLENGES ]_vars

\* this step emits the final summary (show_game_results opens its dialog)
SummaryEmitted == tk'.dialogs = tk.dialogs + 1

(***************************************************************************)
(* C20.  0 <= problems_solved <= MAX_CHALLENGES in every reachable state;  *)
(* the final summary is emitted exactly when problems_solved reaches       *)
(* MAX_CHALLENGES, once per session; and from then on no challenge is      *)
(* presented until a new session starts.                                   *)
(***************************************************************************)
C20_QuotaAndSingleSummary ==
    [][ /\ Game'.problems_solved >= 0
        /\ Game'.problems_solved <= MAX_CHALLENGES
        /\ SummaryEmitted <=>
               (Advanced /\ Game'.problems_solved = MAX_CHALLENGES)
        /\ (Game.problems_solved >= MAX_CHALLENGES /\ ~Started /\ tk'.running) =>
               Game'.active_challenge = Game.active_challenge ]_vars

(***************************************************************************)
(* Challenge generation over the whole of every level's range.  A state    *)
(* of SpecGen is the level selection screen with the level about to be     *)
(* clicked and the values the random source is about to return (log.level  *)
(* and log.draw); its one action is the click, which stores the first      *)
(* challenge.  random.randint(2, 5) is called for a beginner's             *)
(* multiplication only, so the redraw is varied only there.                *)
(***************************************************************************)
Yields(w) ==
    /\ Game' = w.Game
    /\ tk' = w.tk
    /\ log' = w.log

GenDraws(level) ==
    {d \in [num1 : generate_number(level),
            num2 : generate_number(level),
            operation : select_operation,
            redraw : beginner_factor] :
        (level = "BEGINNER" /\ d.operation = "*") \/ d.redraw = 2}

InitGen ==
    \E level \in GameLevel :
    \E d \in GenDraws(level) :
        /\ Game = GameSession
        /\ tk = [MainWindow EXCEPT !.screen = "level"]
        /\ log = [TIMES_UP |-> 0, SUCCESS |-> 0, ANSWER |-> 0, surfaced |-> <<>>,
                  ended_with_double |-> FALSE, carried |-> FALSE, ticks |-> 0,
                  launches |-> 0, level |-> level, draw |-> d]

\* level_btn, with the random source returning log.draw
GenClickLevel ==
    /\ Raised("level")
    /\ Yields(start_space_adventure(World, log.level, log.draw))

NextGen == GenClickLevel

SpecGen == InitGen /\ [][NextGen]_vars

\* the challenge a click has stored
Presented == Game.active_challenge # None

(***************************************************************************)
(* C21.  Every challenge present_challenge stores with operator '-' has    *)
(* its larger operand first, so its expected result is >= 0; the draws     *)
(* 5, 10, '-' at the range 1..15 give the challenge (10, 5, '-') with      *)
(* expected result 5.                                                      *)
(***************************************************************************)
C21_SubtractionNeverNegative ==
    (Presented /\ Game.active_challenge[3] = "-") =>
        /\ Game.active_challenge[1] >= Game.active_challenge[2]
        /\ Expected >= 0
        /\ Expected = Game.active_challenge[1] - Game.active_challenge[2]
        /\ (log.level = "BEGINNER" /\ log.draw.num1 = 5 /\ log.draw.num2 = 10) =>
               (Game.active_challenge = <<10, 5, "-">> /\ Expected = 5)

\* the forced draw of the example, after the click
C21_Witness ==
    /\ Presented
    /\ log.level = "BEGINNER"
    /\ log.draw.num1 = 5
    /\ log.draw.num2 = 10
    /\ log.draw.operation = "-"
    /\ Game.active_challenge = <<10, 5, "-">>

(***************************************************************************)
(* C22.  A BEGINNER challenge with operator '*' has its second operand in  *)
(* 2..5 (the redraw) whatever the two draws were, and keeps its first      *)
(* draw; at the other levels and for the other operators both operands     *)
(* are the draws, exchanged only by the subtraction swap.                  *)
(***************************************************************************)
C22_BeginnerFactorNarrowed ==
    Presented =>
        LET c == Game.active_challenge
            d == log.draw
        IN  /\ c[3] = d.operation
            /\ IF log.level = "BEGINNER" /\ d.operation = "*"
               THEN c[1] = d.num1 /\ c[2] \in 2..5 /\ c[2] = d.redraw
               ELSE IF d.operation = "-" /\ d.num1 < d.num2
               THEN c[1] = d.num2 /\ c[2] = d.num1
               ELSE c[1] = d.num1 /\ c[2] = d.num2

\* a beginner's multiplication whose second draw was 15
C22_Witness ==
    /\ Presented
    /\ log.level = "BEGINNER"
    /\ log.draw.num1 = 3
    /\ log.draw.num2 = 15
    /\ Game.active_challenge = <<3, 5, "*">>

(***************************************************************************)
(* C23.  At each of the three levels every draw of generate_number lies    *)
(* between the level's bounds, both included (BEGINNER 1..15, EXPLORER     *)
(* 10..50, MASTER 50..200), and both bounds are outcomes.                  *)
(***************************************************************************)
C23_DrawsWithinLevelRange ==
    LET lo == CASE log.level = "BEGINNER" -> 1
                [] log.level = "EXPLORER" -> 10
                [] log.level = "MASTER" -> 50
        hi == CASE log.level = "BEGINNER" -> 15
                [] log.level = "EXPLORER" -> 50
                [] log.level = "MASTER" -> 200
    IN  /\ log.draw.num1 \in lo..hi
        /\ log.draw.num2 \in lo..hi
        /\ \A n \in generate_number(log.level) : lo <= n /\ n <= hi
        /\ lo \in generate_number(log.level)
        /\ hi \in generate_number(log.level)

\* both bounds of the widest level drawn for one challenge
C23_Witness ==
    /\ Presented
    /\ log.level = "MASTER"
    /\ log.draw.num1 = 200
    /\ log.draw.num2 = 50
    /\ Game.active_challenge = <<200, 50, "+">>

(***************************************************************************)
(* The final rating over the scores a session of the program's own length  *)
(* (SETTINGS_MAX_CHALLENGES answers of 15 or 7 points, at most             *)
(* INITIAL_CHARGES of them doubled) can end with.  A state of SpecRating   *)
(* is the game screen after the session's last challenge was resolved,     *)
(* with its advance_to_next queued; its one action is that callback,       *)
(* which opens the result dialog.                                          *)
(***************************************************************************)
FinalScores ==
    {FIRST_TRY_POINTS * a + RETRY_POINTS * b
        + 2 * FIRST_TRY_POINTS * c + 2 * RETRY_POINTS * e :
     <<a, b, c, e>> \in
        {q \in (0..SETTINGS_MAX_CHALLENGES) \X (0..SETTINGS_MAX_CHALLENGES)
                 \X (0..INITIAL_CHARGES) \X (0..INITIAL_CHARGES) :
            /\ q[1] + q[2] + q[3] + q[4] <= SETTINGS_MAX_CHALLENGES
            /\ q[3] + q[4] <= INITIAL_CHARGES}}

InitRating ==
    \E score \in FinalScores :
    \E charges \in 0..INITIAL_CHARGES :
    \E powerups \in {<<>>, <<"double_points">>} :
        /\ Len(powerups) <= INITIAL_CHARGES - charges
        /\ Game = [GameSession EXCEPT !.points = score,
                                      !.problems_solved = MAX_CHALLENGES - 1,
                                      !.active_challenge = <<1, 15, "+">>,
                                      !.remaining_time = GAME_DURATION - 1,
                                      !.active_powerups = powerups,
                                      !.powerup_charges = charges]
        /\ tk = [MainWindow EXCEPT !.screen = "game",
                                   !.entry_text = IntStr(16),
                                   !.input_state = "disabled",
                                   !.entry_focus = TRUE,
                                   !.advance_pending = 1]
        /\ log = [TIMES_UP |-> 0, SUCCESS |-> 1, ANSWER |-> 0, surfaced |-> <<>>,
                  ended_with_double |-> FALSE, carried |-> FALSE, ticks |-> 0,
                  launches |-> 1]

\* the queued advance_to_next of the last challenge
RatingAdvance ==
    /\ tk.running
    /\ tk.advance_pending > 0
    /\ \E d \in SessionDraws(Game.current_level) :
           Yields(advance_to_next([World EXCEPT !.tk.advance_pending = @ - 1], d))

NextRating == RatingAdvance

SpecRating == InitRating /\ [][NextRating]_vars

\* the thresholds in the order the code tests them
RatingTiers ==
    << [threshold |-> 135, rating |-> "COSMIC GENIUS"],
       [threshold |-> 120, rating |-> "GALACTIC SCHOLAR"],
       [threshold |-> 90, rating |-> "SPACE EXPLORER"],
       [threshold |-> 60, rating |-> "PLANET TRAVELER"] >>

\* the first tier whose threshold the score meets, the lowest when none
FirstTierMet(score) ==
    LET met == {i \in 1..Len(RatingTiers) : score >= RatingTiers[i].threshold}
    IN IF met = {} THEN "SPACE CADET"
       ELSE RatingTiers[CHOOSE i \in met : \A j \in met : i <= j].rating

\* the result dialog is open
ResultShown == tk.dialogs > 0

(***************************************************************************)
(* C24.  The rating shown for a final score is the first tier, scanning    *)
(* the thresholds 135, 120, 90, 60 highest first, whose threshold the      *)
(* score meets or exceeds, and the lowest tier when none is met; a final   *)
(* score of 95 selects the tier of threshold 90.  The maximum shown is     *)
(* 15 points per challenge of the quota.                                   *)
(***************************************************************************)
C24_RatingIsFirstTierMet ==
    ResultShown =>
        /\ tk.summary.final_score = Game.points
        /\ tk.summary.maximum_score = FIRST_TRY_POINTS * MAX_CHALLENGES
        /\ tk.summary.rating = FirstTierMet(tk.summary.final_score)
        /\ tk.summary.final_score = 95 => tk.summary.rating = "SPACE EXPLORER"
        /\ tk.summary.final_score = 135 => tk.summary.rating = "COSMIC GENIUS"
        /\ tk.summary.final_score = 59 => tk.summary.rating = "SPACE CADET"

\* the example: a final score of 95
C24_Witness ==
    /\ ResultShown
    /\ tk.summary.final_score = 95
    /\ tk.summary.rating = "SPACE EXPLORER"

(***************************************************************************)
(* C25.  The summary is a function of the score and the maximum alone:     *)
(* whatever the rest of the session holds, the label and the message are   *)
(* those a fresh session with the same score gets, so two evaluations      *)
(* with the same score agree; and computing it changes no field of the     *)
(* session (the step that shows it changes only the counter               *)
(* advance_to_next increments before).                                     *)
(***************************************************************************)
C25_RatingDependsOnScoreOnly ==
    [][ SummaryEmitted =>
          /\ tk'.summary = show_final_results([GameSession EXCEPT !.points = Game.points])
          /\ tk'.summary.rating = FirstTierMet(Game.points)
          /\ SessionState(Game') =
                 SessionState([Game EXCEPT !.problems_solved = @ + 1]) ]_vars

\* a summary computed while a power-up is still held and charges are spent
C25_Witness ==
    /\ ResultShown
    /\ tk.summary.final_score = 120
    /\ tk.summary.message = "Amazing mathematical journey!"
    /\ HasDouble(Game)
    /\ Game.powerup_charges = 0

(***************************************************************************)
(* C26.  In every reachable state attempts_made of the current challenge   *)
(* is 0, 1 or 2, whatever submissions, ticks, activations and navigation   *)
(* came before.                                                            *)
(***************************************************************************)
C26_AttemptsAtMostTwo == Game.attempts_made \in 0..ATTEMPT_LIMIT

(***************************************************************************)
(* C27.  The score is >= 0 in every reachable state, and no step other     *)
(* than the start of a session lowers it.                                  *)
(***************************************************************************)
C27_ScoreNeverDecreases ==
    [][ /\ Game.points >= 0
        /\ Game'.points >= 0
        /\ (~Started /\ tk'.running) => Game'.points >= Game.points ]_vars

\* a second session, started after the first was left, that has scored
C27_Witness ==
    /\ log.launches = 2
    /\ Game.points = FIRST_TRY_POINTS
    /\ log.SUCCESS = 1

(***************************************************************************)
(* C28.  In every reachable state the active power-ups hold at most one    *)
(* double_points entry, whatever activations, correct answers and session  *)
(* starts came before.                                                     *)
(***************************************************************************)
C28_AtMostOneDoublePoints ==
    Cardinality({i \in 1..Len(Game.active_powerups) :
                    Game.active_powerups[i] = "double_points"}) <= 1

\* double points active again after a first one was used on a correct answer
C28_Witness ==
    /\ HasDouble(Game)
    /\ Game.points = 2 * FIRST_TRY_POINTS
    /\ Game.powerup_charges = INITIAL_CHARGES - 2

(***************************************************************************)
(* C29.  A first incorrect integer submission on a challenge leaves it to  *)
(* be retried: attempts_made becomes 1, the countdown is restarted from    *)
(* the full GAME_DURATION, the same challenge stays, score and             *)
(* problems_solved are unchanged, the answer is not surfaced and no        *)
(* advance is scheduled.                                                   *)
(***************************************************************************)
C29_FirstMissRetries ==
    [][ (Game.attempts_made = 0 /\ Missed) =>
          /\ Game'.attempts_made = 1
          /\ Game'.remaining_time = GAME_DURATION - 1
          /\ Game'.timer_reference = "pending"
          /\ log'.ticks = 0
          /\ Game'.active_challenge = Game.active_challenge
          /\ Game'.points = Game.points
          /\ Game'.problems_solved = Game.problems_solved
          /\ tk'.advance_pending = tk.advance_pending
          /\ log'.ANSWER = log.ANSWER
          /\ log'.surfaced = log.surfaced
          /\ tk'.input_state = tk.input_state ]_vars

\* the second challenge of a session right after its first miss
C29_Witness ==
    /\ Game.attempts_made = 1
    /\ Game.problems_solved = 1
    /\ Game.points = FIRST_TRY_POINTS
    /\ Game.remaining_time = GAME_DURATION - 1
    /\ Game.timer_reference = "pending"
    /\ log.ticks = 0
    /\ tk.input_state = "normal"
    /\ tk.entry_text = <<>>
    /\ tk.advance_pending = 0

(***************************************************************************)
(* C30.  Whenever a challenge is presented (a session starts, or           *)
(* advance_to_next moves on below the quota), attempts_made is 0 and the   *)
(* countdown starts from the full GAME_DURATION, however the previous      *)
(* challenge ended and whatever boosted time was left on it.               *)
(***************************************************************************)
C30_PresentationResets ==
    [][ ((Started \/ (Advanced /\ Game'.problems_solved < MAX_CHALLENGES))
            /\ tk'.running) =>
          /\ Game'.active_challenge # None
          /\ Game'.attempts_made = 0
          /\ Game'.remaining_time = GAME_DURATION - 1
          /\ Game'.timer_reference = "pending"
          /\ log'.ticks = 0 ]_vars

\* the challenge presented after one that ended unanswered with a time boost
\* spent on it
C30_Witness ==
    /\ Game.problems_solved = 1
    /\ Game.points = 0
    /\ Game.powerup_charges = INITIAL_CHARGES - 1
    /\ ~HasDouble(Game)
    /\ Game.attempts_made = 0
    /\ Game.remaining_time = GAME_DURATION - 1
    /\ log.ticks = 0
    /\ log.TIMES_UP + log.ANSWER = 0

(***************************************************************************)
(* C31.  Within a session the score changes only in a step that verifies   *)
(* a correct answer, and then by exactly the base points (15 on the first  *)
(* try, 7 after a miss), doubled (30 or 14) when double points was         *)
(* active; ticks, expiry, incorrect or invalid submissions, power-up       *)
(* activations and advances leave it unchanged.                            *)
(***************************************************************************)
C31_ScoreChangesOnlyOnCorrect ==
    [][ (~Started /\ tk'.running) =>
          IF Scored
          THEN /\ Award = (IF HasDouble(Game) THEN 2 ELSE 1)
                            * (IF Game.attempts_made = 0 THEN 15 ELSE 7)
               /\ Award \in {15, 7, 30, 14}
          ELSE Award = 0 ]_vars

\* a doubled retry: 14 points, after a challenge that expired unanswered
C31_Witness ==
    /\ Game.points = 2 * RETRY_POINTS
    /\ Game.problems_solved = 1
    /\ Game.attempts_made = 1
    /\ log.SUCCESS = 1
    /\ ~HasDouble(Game)

(***************************************************************************)
(* C32.  In every reachable state of a session the score is at most the    *)
(* maximum shown beside it, 15 * MAX_CHALLENGES.                           *)
(***************************************************************************)
C32_ScoreWithinMaximum == Game.points <= 15 * MAX_CHALLENGES

(***************************************************************************)
(* C33.  The rating depends on the score as a percentage of the maximum:   *)
(* whatever the configured quota, a final score gets the rating that the   *)
(* score of the same percentage gets at the maximum of 150.                *)
(***************************************************************************)
C33_SamePercentageSameTier ==
    ResultShown =>
        \A other \in 0..(15 * SETTINGS_MAX_CHALLENGES) :
            (other * tk.summary.maximum_score
                = tk.summary.final_score * 15 * SETTINGS_MAX_CHALLENGES)
            => rating_of(other) = tk.summary.rating

(***************************************************************************)
(* The answer a challenge surfaces, over every challenge of the levels in  *)
(* AnswerLevels.  A state of SpecAnswer starts on the game screen with     *)
(* a challenge up and its countdown queued, either on its last tick        *)
(* (remaining_time = -1) or after a first miss (attempts_made = 1); its    *)
(* actions are the countdown callback and the SOLVE button.                *)
(***************************************************************************)
AnswerLevels == GameLevel

InitAnswer ==
    \E level \in AnswerLevels :
    \E d \in GenDraws(level) :
    \E last_tick \in BOOLEAN :
        /\ Game = [GameSession EXCEPT
                       !.current_level = level,
                       !.active_challenge = challenge_of(level, d),
                       !.attempts_made = IF last_tick THEN 0 ELSE 1,
                       !.remaining_time = IF last_tick THEN 0 - 1 ELSE GAME_DURATION - 1,
                       !.timer_reference = "pending"]
        /\ tk = [MainWindow EXCEPT !.screen = "game", !.entry_focus = TRUE]
        /\ log = [TIMES_UP |-> 0, SUCCESS |-> 0, ANSWER |-> 0, surfaced |-> <<>>,
                  ended_with_double |-> FALSE, carried |-> FALSE,
                  ticks |-> IF last_tick THEN GAME_DURATION ELSE 0,
                  launches |-> 1]

\* the countdown callback Game.timer_reference names
AnswerTick ==
    /\ tk.running
    /\ Game.timer_reference = "pending"
    /\ \E w \in AtTick(World) :
           Yields(update_timer_display(
                      [w EXCEPT !.Game.timer_reference = "fired",
                                !.log.ticks = IF @ >= 0 THEN @ + 1 ELSE @]))

\* submit_action (SOLVE): command=check_player_answer
AnswerSolve ==
    /\ Raised("game")
    /\ tk.input_state = "normal"
    /\ \E w \in Typed(World) : Yields(check_player_answer(w))

NextAnswer ==
    \/ AnswerTick
    \/ AnswerSolve

SpecAnswer == InitAnswer /\ [][NextAnswer]_vars

(***************************************************************************)
(* C34.  The answer surfaced when the timer expires and on the second      *)
(* incorrect attempt is the value the verifier compares submissions with   *)
(* (submitting it is verified as correct) and equals                       *)
(* MathHelper.calculate_result, for every challenge with operator +, -     *)
(* or *.                                                                   *)
(***************************************************************************)
C34_SurfacedIsExpected ==
    [][ EndsUnanswered =>
          /\ log'.surfaced = <<Expected>>
          /\ log'.surfaced =
                 <<correct_answer(Game.active_challenge[1], Game.active_challenge[2],
                                  Game.active_challenge[3])>>
          /\ verify_solution(World, Game.active_challenge[1], Game.active_challenge[2],
                             Game.active_challenge[3], log'.surfaced[1]).is_correct ]_vars

\* the timer expired on 50 - 10 and 40 was surfaced
C34_Witness ==
    /\ log.TIMES_UP = 1
    /\ Game.active_challenge = <<50, 10, "-">>
    /\ log.surfaced = <<40>>

(***************************************************************************)
(* C35.  Each challenge adds to the score at most once: from the step      *)
(* that resolves a challenge (correct answer, second miss or expiry)       *)
(* until the next challenge is presented, no submission is verified and    *)
(* no points are added.                                                    *)
(***************************************************************************)
C35_ScoredAtMostOnce ==
    [][ ((Submitted \/ Expired) /\ ~Started /\ tk'.running) =>
          /\ ~Scored
          /\ ~Missed
          /\ Award = 0 ]_vars

(***************************************************************************)
(* Progress without the player.  SpecLive is the program of Spec with a    *)
(* mark, log.quiet, for the moment from which no command arrives any more  *)
(* (no click, no Return): until then every handler of Spec may run, and    *)
(* states are followed up to the weight LiveWeight; from then on only the  *)
(* callbacks queued with main_window.after run, and all of their states    *)
(* are followed.  The Tk event loop runs a queued callback once it is due, *)
(* so the countdown callbacks and the advances are weakly fair.            *)
(***************************************************************************)
InitLive ==
    /\ Game = GameSession
    /\ tk = MainWindow
    /\ log = [TIMES_UP |-> 0, SUCCESS |-> 0, ANSWER |-> 0, surfaced |-> <<>>,
              ended_with_double |-> FALSE, carried |-> FALSE, ticks |-> 0,
              launches |-> 0, quiet |-> FALSE]

LiveBecomes(w) ==
    /\ log.quiet \/ (Bounded(w) /\ Weight(w) <= LiveWeight)
    /\ Yields(w)

\* any handler a click or a key runs
LiveCommand ==
    /\ tk.running
    /\ ~log.quiet
    /\ \/ ClickLaunch
       \/ ClickExit
       \/ ClickReturn
       \/ ClickLevel
       \/ ClickBack
       \/ ClickSolve
       \/ PressReturn
       \/ ClickTimeBoost
       \/ ClickDoublePoints
       \/ AnswerDialog
    /\ Weight([Game |-> Game', tk |-> tk', log |-> log']) <= LiveWeight

\* the last command has been given
Hush ==
    /\ tk.running
    /\ ~log.quiet
    /\ Yields([World EXCEPT !.log.quiet = TRUE])

\* a queued countdown callback runs: the one Game.timer_reference names, or
\* one nothing references any more
LiveTick ==
    /\ tk.running
    /\ \E w \in AtTick(World) :
           \/ /\ Game.timer_reference = "pending"
              /\ LiveBecomes(update_timer_display(
                                 [w EXCEPT !.Game.timer_reference = "fired",
                                           !.log.ticks = IF @ >= 0 THEN @ + 1 ELSE @]))
           \/ /\ tk.tick_orphans > 0
              /\ LiveBecomes(update_timer_display(
                                 [w EXCEPT !.tk.tick_orphans = @ - 1,
                                           !.log.ticks = -1]))

LiveAdvance ==
    /\ tk.running
    /\ tk.advance_pending > 0
    /\ \E d \in SessionDraws(Game.current_level) :
           LiveBecomes(advance_to_next([World EXCEPT !.tk.advance_pending = @ - 1], d))

NextLive ==
    \/ LiveCommand
    \/ Hush
    \/ LiveTick
    \/ LiveAdvance

SpecLive ==
    /\ InitLive
    /\ [][NextLive]_vars
    /\ WF_vars(LiveTick)
    /\ WF_vars(LiveAdvance)

\* a session is under way on the game screen
Running ==
    /\ tk.running
    /\ tk.screen = "game"
    /\ log.launches > 0
    /\ Game.problems_solved < MAX_CHALLENGES

\* the quota is reached and the final summary is on the screen
Finished ==
    /\ Game.problems_solved >= MAX_CHALLENGES
    /\ tk.dialogs > 0
    /\ tk.summary # NoSummary

(***************************************************************************)
(* C36.  With the countdown ticks and the queued advances weakly fair,     *)
(* once no command arrives any more every session under way reaches the    *)
(* quota and shows its final summary.                                      *)
(***************************************************************************)
C36_QuietSessionFinishes ==
    (tk.running /\ log.quiet /\ Running) ~> Finished

\* a session the player left alone on its first challenge has finished by
\* expiries alone
C36_Witness ==
    /\ tk.running
    /\ log.quiet
    /\ Finished
    /\ Game.problems_solved = MAX_CHALLENGES
    /\ Game.points = 0
    /\ Game.powerup_charges = INITIAL_CHARGES
    /\ log.TIMES_UP = 1

(***************************************************************************)
(* C37.  In every reachable state                                          *)
(* -1 <= remaining_time <= GAME_DURATION + 15 * 3: the countdown never     *)
(* goes below -1, and the time boosts of a session (three at most) never   *)
(* raise it above the full duration plus 45 seconds.                       *)
(***************************************************************************)
C37_RemainingTimeRange ==
    /\ Game.remaining_time >= 0 - 1
    /\ Game.remaining_time <= GAME_DURATION + TIME_BOOST * INITIAL_CHARGES

\* all three charges spent as time boosts on one fresh countdown
C37_Witness ==
    /\ Game.powerup_charges = 0
    /\ Game.remaining_time = GAME_DURATION - 1 + TIME_BOOST * INITIAL_CHARGES
    /\ Game.timer_reference = "pending"
    /\ ~HasDouble(Game)

(***************************************************************************)
(* Exercise three, 03-StudentManager.py.  In SpecStudents tk is the        *)
(* StudentManagerApp window (its record list, the dialog that holds the    *)
(* grab, the student the update dialog has loaded, the last message box    *)
(* or message shown), log is the dataset file (its lines) together with    *)
(* the list last handed to save_students, and Game, the quiz's session,    *)
(* stays as constructed.  Texts are sequences of characters; the file is   *)
(* a sequence of lines, what "\n".join writes and readlines reads back     *)
(* for texts typed into single-line entries.                               *)
(***************************************************************************)
StudentRecord(student_id, name, coursework_marks, exam_mark) ==
    [student_id |-> student_id, name |-> name,
     coursework_marks |-> coursework_marks, exam_mark |-> exam_mark]

\* sep.join(parts)
RECURSIVE JoinText(_, _)
JoinText(parts, sep) ==
    IF parts = <<>> THEN <<>>
    ELSE IF Len(parts) = 1 THEN parts[1]
    ELSE parts[1] \o <<sep>> \o JoinText(Tail(parts), sep)

\* text.split(sep)
RECURSIVE SplitText(_, _)
SplitText(text, sep) ==
    IF \A i \in 1..Len(text) : text[i] # sep THEN <<text>>
    ELSE LET i == CHOOSE k \in 1..Len(text) :
                      text[k] = sep /\ \A j \in 1..(k - 1) : text[j] # sep
         IN <<SubSeq(text, 1, i - 1)>>
                \o SplitText(SubSeq(text, i + 1, Len(text)), sep)

\* str.lower, on the letters the model types
LowerText(text) ==
    [i \in 1..Len(text) |->
        CASE text[i] = "A" -> "a"
          [] text[i] = "B" -> "b"
          [] OTHER -> text[i]]

\* query in text
ContainsText(text, query) ==
    \E i \in 0..(Len(text) - Len(query)) :
        SubSeq(text, i + 1, i + Len(query)) = query

\* the line save_students writes for one record
record_line(student) ==
    JoinText(<<IntStr(student.student_id),
               student.name,
               JoinText([i \in 1..Len(student.coursework_marks) |->
                            IntStr(student.coursework_marks[i])], ","),
               IntStr(student.exam_mark)>>, ",")

\* the lines of the file save_students writes
save_students(students) ==
    <<IntStr(Len(students))>>
        \o [i \in 1..Len(students) |-> record_line(students[i])]

\* one row of the file: [ok |-> FALSE] stands for `continue`
parse_row(row) ==
    LET split == SplitText(row, ",")
        parts == [i \in 1..Len(split) |-> Strip(split[i])]
    IN IF Len(parts) # 6
       THEN [ok |-> FALSE, record |-> <<>>]
       ELSE LET student_id == ParseInt(parts[1])
                cw1 == ParseInt(parts[3])
                cw2 == ParseInt(parts[4])
                cw3 == ParseInt(parts[5])
                exam == ParseInt(parts[6])
            IN IF student_id.ok /\ cw1.ok /\ cw2.ok /\ cw3.ok /\ exam.ok
               THEN [ok |-> TRUE,
                     record |-> StudentRecord(student_id.val, parts[2],
                                              <<cw1.val, cw2.val, cw3.val>>, exam.val)]
               ELSE [ok |-> FALSE, record |-> <<>>]

RECURSIVE load_rows(_)
load_rows(rows) ==
    IF rows = <<>> THEN <<>>
    ELSE LET parsed == parse_row(Head(rows))
         IN (IF parsed.ok THEN <<parsed.record>> ELSE <<>>) \o load_rows(Tail(rows))

NonBlank(line) == line # <<>>

load_students(file) ==
    LET lines == SelectSeq([i \in 1..Len(file) |-> Strip(file[i])], NonBlank)
    IN IF lines = <<>> THEN <<>> ELSE load_rows(Tail(lines))

\* the position of the record find_student returns, 0 for None
find_student(students, query) ==
    LET q == LowerText(Strip(query))
        hits == {i \in 1..Len(students) :
                    \/ AllDigits(q) /\ DigitsValue(q) = students[i].student_id
                    \/ ContainsText(LowerText(students[i].name), q)}
    IN IF q = <<>> \/ hits = {} THEN 0
       ELSE CHOOSE i \in hits : \A j \in hits : i <= j

persist_and_refresh(w) ==
    LET file == save_students(w.tk.students)
    IN [w EXCEPT !.log.file = file,
                 !.log.saved = w.tk.students,
                 !.tk.students = load_students(file)]

\* variant: the new ID is not compared with the ones on the list
submit_unchecked(w, form) ==
    LET student_id == ParseInt(form.id)
        name == Strip(form.name)
        cw1 == ParseInt(form.cw1)
        cw2 == ParseInt(form.cw2)
        cw3 == ParseInt(form.cw3)
        exam == ParseInt(form.exam)
    IN IF ~(student_id.ok /\ cw1.ok /\ cw2.ok /\ cw3.ok /\ exam.ok)
       THEN [w EXCEPT !.tk.message = "Invalid Input"]
       ELSE IF name = <<>>
       THEN [w EXCEPT !.tk.message = "Invalid Input"]
       ELSE LET new_record == StudentRecord(student_id.val, name,
                                            <<cw1.val, cw2.val, cw3.val>>, exam.val)
                appended == [w EXCEPT !.tk.students = Append(@, new_record)]
            IN [persist_and_refresh(appended) EXCEPT
                    !.tk.message = "Student added", !.tk.dialog = "none"]

\* open_add_dialog.submit
submit(w, form) ==
    LET student_id == ParseInt(form.id)
        name == Strip(form.name)
        cw1 == ParseInt(form.cw1)
        cw2 == ParseInt(form.cw2)
        cw3 == ParseInt(form.cw3)
        exam == ParseInt(form.exam)
    IN IF ~(student_id.ok /\ cw1.ok /\ cw2.ok /\ cw3.ok /\ exam.ok)
       THEN [w EXCEPT !.tk.message = "Invalid Input"]
       ELSE IF name = <<>>
       THEN [w EXCEPT !.tk.message = "Invalid Input"]
       ELSE IF \E i \in 1..Len(w.tk.students) :
                   w.tk.students[i].student_id = student_id.val
       THEN [w EXCEPT !.tk.message = "Duplicate ID"]
       ELSE LET new_record == StudentRecord(student_id.val, name,
                                            <<cw1.val, cw2.val, cw3.val>>, exam.val)
                appended == [w EXCEPT !.tk.students = Append(@, new_record)]
            IN [persist_and_refresh(appended) EXCEPT
                    !.tk.message = "Student added", !.tk.dialog = "none"]

\* open_delete_dialog.delete_record; confirmed is the answer to askyesno
delete_record(w, query, confirmed) ==
    LET found == find_student(w.tk.students, Strip(query))
    IN IF found = 0
       THEN [w EXCEPT !.tk.message = "Not Found"]
       ELSE IF ~confirmed
       THEN w
       ELSE LET student == w.tk.students[found]
                kept(s) == s.student_id # student.student_id
                removed == [w EXCEPT !.tk.students = SelectSeq(@, kept)]
            IN [persist_and_refresh(removed) EXCEPT
                    !.tk.message = "Student removed", !.tk.dialog = "none"]

\* open_update_dialog.load_student
load_student(w, query) ==
    LET found == find_student(w.tk.students, query)
    IN IF found = 0
       THEN [w EXCEPT !.tk.message = "Not Found"]
       ELSE [w EXCEPT !.tk.selected = found]

\* open_update_dialog.save_updates
save_updates(w, form) ==
    IF w.tk.selected = 0
    THEN [w EXCEPT !.tk.message = "Load Required"]
    ELSE LET new_name == Strip(form.name)
             cw1 == ParseInt(form.cw1)
             cw2 == ParseInt(form.cw2)
             cw3 == ParseInt(form.cw3)
             exam == ParseInt(form.exam)
         IN IF ~(cw1.ok /\ cw2.ok /\ cw3.ok /\ exam.ok)
            THEN [w EXCEPT !.tk.message = "Invalid Input"]
            ELSE IF new_name = <<>>
            THEN [w EXCEPT !.tk.message = "Invalid Input"]
            ELSE LET updated ==
                         [w EXCEPT !.tk.students[w.tk.selected].name = new_name,
                                   !.tk.students[w.tk.selected].coursework_marks =
                                       <<cw1.val, cw2.val, cw3.val>>,
                                   !.tk.students[w.tk.selected].exam_mark = exam.val]
                 IN [persist_and_refresh(updated) EXCEPT
                         !.tk.message = "Student updated",
                         !.tk.dialog = "none",
                         !.tk.selected = 0]

\* what is typed into the entries of the dialogs
IdTexts == {<<"1">>, <<"2">>, <<"0", "1">>, <<"x">>}

NameTexts == {<<"a">>, <<"B">>, <<"a", ",", "B">>, <<" ">>}

MarkTexts == {<<"7">>, <<"x">>}

ExamTexts == {<<"4", "0">>, <<"5">>}

QueryTexts == {<<"1">>, <<"2">>, <<"a">>, <<"b">>, <<"z">>, <<>>}

AddForms ==
    [id : IdTexts, name : NameTexts, cw1 : MarkTexts, cw2 : {<<"7">>},
     cw3 : {<<"7">>}, exam : ExamTexts]

UpdateForms ==
    [name : NameTexts, cw1 : MarkTexts, cw2 : {<<"7">>}, cw3 : {<<"7">>},
     exam : ExamTexts]

\* the datasets the application is started on: no record, one record
StartLists ==
    {<<>>, <<StudentRecord(1, <<"a">>, <<7, 7, 7>>, 40)>>}

InitStudents ==
    \E listed \in StartLists :
        /\ Game = GameSession
        /\ tk = [running |-> TRUE,
                 students |-> load_students(save_students(listed)),
                 dialog |-> "none",
                 selected |-> 0,
                 message |-> "Ready"]
        /\ log = [file |-> save_students(listed),
                  saved |-> load_students(save_students(listed))]

\* the menu buttons Add, Delete, Update: each dialog takes the grab
OpenDialog ==
    /\ tk.dialog = "none"
    /\ \E dialog \in {"add", "delete", "update"} :
           Yields([World EXCEPT !.tk.dialog = dialog, !.tk.selected = 0])

\* the dialog is closed from the window manager
CloseDialog ==
    /\ tk.dialog # "none"
    /\ Yields([World EXCEPT !.tk.dialog = "none", !.tk.selected = 0])

AddSubmit ==
    /\ tk.dialog = "add"
    /\ \E form \in AddForms : Yields(submit(World, form))

DeleteRecord ==
    /\ tk.dialog = "delete"
    /\ \E query \in QueryTexts :
       \E confirmed \in BOOLEAN :
           Yields(delete_record(World, query, confirmed))

UpdateLoad ==
    /\ tk.dialog = "update"
    /\ \E query \in QueryTexts : Yields(load_student(World, query))

UpdateSave ==
    /\ tk.dialog = "update"
    /\ \E form \in UpdateForms : Yields(save_updates(World, form))

NextStudents ==
    \/ OpenDialog
    \/ CloseDialog
    \/ AddSubmit
    \/ DeleteRecord
    \/ UpdateLoad
    \/ UpdateSave

SpecStudents == InitStudents /\ [][NextStudents]_vars

\* the form passes the tests that come before the duplicate test
AcceptableForm(form) ==
    /\ ParseInt(form.id).ok
    /\ ParseInt(form.cw1).ok
    /\ ParseInt(form.cw2).ok
    /\ ParseInt(form.cw3).ok
    /\ ParseInt(form.exam).ok
    /\ Strip(form.name) # <<>>

ListedIds == {tk.students[i].student_id : i \in 1..Len(tk.students)}

(***************************************************************************)
(* C38.  Started on records with pairwise distinct IDs, the student        *)
(* manager keeps the IDs of its records pairwise distinct through every    *)
(* add, delete and update; an add whose ID is already on the list is       *)
(* rejected ("Duplicate ID") and leaves the list and the file unchanged.   *)
(***************************************************************************)
C38_DistinctIds ==
    /\ \A i, j \in 1..Len(tk.students) :
           i # j => tk.students[i].student_id # tk.students[j].student_id
    /\ tk.dialog = "add" =>
           \A form \in AddForms :
               (AcceptableForm(form) /\ ParseInt(form.id).val \in ListedIds) =>
                   /\ submit(World, form).tk.students = tk.students
                   /\ submit(World, form).log = log
                   /\ submit(World, form).tk.message = "Duplicate ID"

\* an add has just been rejected as a duplicate, with two records listed
C38_Witness ==
    /\ tk.dialog = "add"
    /\ tk.message = "Duplicate ID"
    /\ Len(tk.students) = 2
    /\ ListedIds = {1, 2}

(***************************************************************************)
(* C39.  Saving then reloading is a round trip: whatever list add, update  *)
(* or delete hands to save_students, load_students returns the same        *)
(* records in the same order, so persist_and_refresh never drops or        *)
(* alters a record.                                                        *)
(***************************************************************************)
C39_ReloadReturnsSaved == tk.students = log.saved

====
